---- MODULE Spec2Model ----
(***************************************************************************)
(* MetricPlugin of serverless-plugin-metric (src/index.js, lines 54-178):  *)
(* one pass of handler() turns the list custom.metrics and the function    *)
(* names of the service into AWS::Logs::MetricFilter resources and writes  *)
(* them into compiledCloudFormationTemplate.Resources.                     *)
(*                                                                         *)
(* The file src/index.js also holds an earlier variant of the class (lines *)
(* 183-352); the model follows the current one.  The naming service of the *)
(* host, this.provider.naming, is modelled as the serverless framework     *)
(* implements it.                                                          *)
(*                                                                         *)
(* A JavaScript string is a sequence of one-character strings, the value   *)
(* undefined is the sequence Undefined (no string: its only element is not *)
(* a character), an object is a record whose DOMAIN is the set of its keys.*)
(***************************************************************************)
EXTENDS Integers, Sequences, FiniteSets

VARIABLES
    metricOptions,     \* this.metricOptions: custom.metrics, or []
    functions,         \* this.functions: serverless.service.getAllFunctions()
    service,           \* serverless.service.service
    stage,             \* serverless.service.provider.stage
    hasResources,      \* compiledCloudFormationTemplate.Resources is defined
    Resources,         \* compiledCloudFormationTemplate.Resources: key -> resource
    dynamicNamespace,  \* this.dynamicNamespace
    pc,                \* position in handler()
    mapped,            \* the array built by this.functions.map(...)
    i,                 \* index of the function mapped / iterated next
    j,                 \* index of the resource iterated next
    error,             \* the exception that left handler(), or "none"
    again,             \* a pass over the same inputs has completed before
    resourcesAtStart,  \* Resources when the current pass began
    registered         \* the keys registerResource has written

vars == <<metricOptions, functions, service, stage, hasResources, Resources,
          dynamicNamespace, pc, mapped, i, j, error, again, resourcesAtStart,
          registered>>

-----------------------------------------------------------------------------
(* Bounds of the model *)

MaxFunctions == 2
MaxDecls == 2

-----------------------------------------------------------------------------
(* Strings *)

LowerCase == <<"a","b","c","d","e","f","g","h","i","j","k","l","m",
               "n","o","p","q","r","s","t","u","v","w","x","y","z">>
UpperCase == <<"A","B","C","D","E","F","G","H","I","J","K","L","M",
               "N","O","P","Q","R","S","T","U","V","W","X","Y","Z">>
Digits == {"0","1","2","3","4","5","6","7","8","9"}

AlphaNumerics ==
    Digits \cup { LowerCase[n] : n \in DOMAIN LowerCase }
           \cup { UpperCase[n] : n \in DOMAIN UpperCase }

IsAlphaNumeric(c) == c \in AlphaNumerics

UpperChar(c) ==
    IF \E n \in DOMAIN LowerCase : c = LowerCase[n]
    THEN UpperCase[CHOOSE n \in DOMAIN LowerCase : c = LowerCase[n]]
    ELSE c

Undefined == <<"#undefined">>

\* `${v}`: a template literal prints undefined as the nine letters
Interpolate(v) ==
    IF v = Undefined THEN <<"u","n","d","e","f","i","n","e","d">> ELSE v

\* what || and && take for true: neither undefined nor ""
Truthy(v) == v # Undefined /\ v # <<>>

MetricFilterLit == <<"M","e","t","r","i","c","F","i","l","t","e","r">>
LogGroupLit == <<"L","o","g","G","r","o","u","p">>
DashLit == <<"D","a","s","h">>
UnderscoreLit == <<"U","n","d","e","r","s","c","o","r","e">>
LambdaPrefix == <<"/","a","w","s","/","l","a","m","b","d","a","/">>

MetricFilterType == "AWS::Logs::MetricFilter"
LogGroupType == "AWS::Logs::LogGroup"

-----------------------------------------------------------------------------
(* The host's naming service, this.provider.naming *)

upperFirst(s) == IF s = <<>> THEN s ELSE <<UpperChar(Head(s))>> \o Tail(s)

normalizeName(name) == upperFirst(name)

normalizeNameToAlphaNumericOnly(name) ==
    normalizeName(SelectSeq(name, IsAlphaNumeric))

RECURSIVE SpellOut(_)
SpellOut(s) ==
    IF s = <<>> THEN <<>>
    ELSE (CASE Head(s) = "-" -> DashLit
            [] Head(s) = "_" -> UnderscoreLit
            [] OTHER -> <<Head(s)>>) \o SpellOut(Tail(s))

getNormalizedFunctionName(functionName) == normalizeName(SpellOut(functionName))

getLogGroupLogicalId(functionName) ==
    getNormalizedFunctionName(functionName) \o LogGroupLit

\* the log group the host compiles for a function
getLogGroupName(svc, stg, functionName) ==
    LambdaPrefix \o svc \o <<"-">> \o stg \o <<"-">> \o functionName

LogGroupResource(svc, stg, functionName) ==
    [Type |-> LogGroupType,
     Properties |-> [LogGroupName |-> getLogGroupName(svc, stg, functionName)]]

-----------------------------------------------------------------------------
(* Objects *)

Has(o, k) == k \in DOMAIN o
Get(o, k) == IF k \in DOMAIN o THEN o[k] ELSE Undefined
Delete(o, k) == [f \in DOMAIN o \ {k} |-> o[f]]
Put(tab, k, v) == [x \in DOMAIN tab \cup {k} |-> IF x = k THEN v ELSE tab[x]]
EmptyTable == [x \in {} |-> Undefined]

-----------------------------------------------------------------------------
(* MetricPlugin *)

\* the filter of createMetricFilterResources
AppliesTo(option, functionName) ==
    IF Has(option, "functions") /\ Len(option.functions) > 0
    THEN \E n \in 1..Len(option.functions) : option.functions[n] = functionName
    ELSE TRUE

ApplicableOptions(options, functionName) ==
    SelectSeq(options, LAMBDA option : AppliesTo(option, functionName))

\* the exception createAWSMetricResource ends with, or "none"
CreateThrows(defined, tab, functionName, option) ==
    LET logGroupLogicalId == getLogGroupLogicalId(functionName)
    IN  IF \/ ~defined
           \/ logGroupLogicalId \notin DOMAIN tab
           \/ ~Has(tab[logGroupLogicalId], "Properties")
        THEN "TypeError"
        ELSE IF ~Truthy(Get(option, "namespace"))
             THEN "ReferenceError"
             ELSE "none"

\* createAWSMetricResource without its staticName branch
createAWSMetricResourceDerivedName(tab, functionName, option) ==
    LET name == Get(option, "name")
        logGroupLogicalId == getLogGroupLogicalId(functionName)
    IN  [__metricOption |-> option,
         Type |-> MetricFilterType,
         DependsOn |-> logGroupLogicalId,
         Properties |->
            [FilterPattern |-> Get(option, "pattern"),
             LogGroupName |-> Get(tab[logGroupLogicalId].Properties, "LogGroupName"),
             MetricTransformations |->
                << [MetricName |-> normalizeName(functionName) \o <<"-">> \o Interpolate(name),
                    MetricNamespace |-> Get(option, "namespace"),
                    MetricValue |-> IF Has(option, "value") THEN option.value ELSE <<"1">>,
                    DefaultValue |-> Get(option, "defaultValue")] >>]]

createAWSMetricResource(tab, functionName, option) ==
    LET name == Get(option, "name")
        staticName == IF Has(option, "staticName") THEN option.staticName ELSE FALSE
        namespace == Get(option, "namespace")
        pattern == Get(option, "pattern")
        value == IF Has(option, "value") THEN option.value ELSE <<"1">>
        defaultValue == Get(option, "defaultValue")
        logGroupLogicalId == getLogGroupLogicalId(functionName)
        logGroup == tab[logGroupLogicalId]
        logGroupName == Get(logGroup.Properties, "LogGroupName")
        normalizedName == normalizeName(functionName)
    IN  [__metricOption |-> option,
         Type |-> MetricFilterType,
         DependsOn |-> logGroupLogicalId,
         Properties |->
            [FilterPattern |-> pattern,
             LogGroupName |-> logGroupName,
             MetricTransformations |->
                << [MetricName |-> IF staticName THEN name
                                   ELSE normalizedName \o <<"-">> \o Interpolate(name),
                    MetricNamespace |-> namespace,
                    MetricValue |-> value,
                    DefaultValue |-> defaultValue] >>]]

RECURSIVE FirstThrow(_, _, _, _)
FirstThrow(defined, tab, functionName, options) ==
    IF options = <<>> THEN "none"
    ELSE LET t == CreateThrows(defined, tab, functionName, Head(options))
         IN  IF t # "none" THEN t
             ELSE FirstThrow(defined, tab, functionName, Tail(options))

createMetricFilterResources(tab, functionName, options) ==
    LET applicable == ApplicableOptions(options, functionName)
    IN  [functionName |-> functionName,
         resources |-> [n \in 1..Len(applicable) |->
                          createAWSMetricResource(tab, functionName, applicable[n])]]

ResourceName(functionName, resource) ==
    functionName \o MetricFilterLit \o Interpolate(Get(resource.__metricOption, "name"))

\* registerResource that leaves an entry it finds at the key
registerResourceKeepExisting(defined, tab, name, resource) ==
    IF defined /\ normalizeNameToAlphaNumericOnly(name) \in DOMAIN tab
    THEN tab
    ELSE Put(IF defined THEN tab ELSE EmptyTable,
             normalizeNameToAlphaNumericOnly(name),
             Delete(resource, "__metricOption"))

\* registerResource that writes beside an entry it finds at the key
registerResourceBeside(defined, tab, name, resource) ==
    Put(IF defined THEN tab ELSE EmptyTable,
        IF defined /\ normalizeNameToAlphaNumericOnly(name) \in DOMAIN tab
        THEN normalizeNameToAlphaNumericOnly(name) \o <<"2">>
        ELSE normalizeNameToAlphaNumericOnly(name),
        Delete(resource, "__metricOption"))

\* registerResource with the test of line 172 inverted: the table starts anew
registerResourceAnew(defined, tab, name, resource) ==
    Put(EmptyTable,
        normalizeNameToAlphaNumericOnly(name),
        Delete(resource, "__metricOption"))

\* registerResource without the delete of line 171
registerResourceWithMeta(defined, tab, name, resource) ==
    Put(IF defined THEN tab ELSE EmptyTable,
        normalizeNameToAlphaNumericOnly(name),
        resource)

\* the table registerResource leaves
registerResource(defined, tab, name, resource) ==
    Put(IF defined THEN tab ELSE EmptyTable,
        normalizeNameToAlphaNumericOnly(name),
        Delete(resource, "__metricOption"))

-----------------------------------------------------------------------------
(* Inputs *)

Svc == <<"s","v","c">>
Dev == <<"d","e","v">>

FunctionNames ==
    { <<"a","-","b">>, <<"A","-","b">>, <<"a","b">> \o MetricFilterLit }

BaseOption ==
    [name |-> <<"e","-","r">>, pattern |-> <<"p">>, namespace |-> <<"c","/","n">>]

With(o, k, v) == [f \in DOMAIN o \cup {k} |-> IF f = k THEN v ELSE o[f]]

\* the base declaration and the declarations one step away from it
OptionSet ==
    { BaseOption,
      Delete(BaseOption, "namespace"),
      With(BaseOption, "functions", << <<"a","-","b">> >>),
      With(With(BaseOption, "functions", <<>>), "staticName", FALSE),
      With(With(With(BaseOption, "staticName", TRUE), "value", <<"5">>),
           "defaultValue", <<"0">>),
      Delete(BaseOption, "name"),
      Delete(BaseOption, "pattern"),
      With(BaseOption, "name", LogGroupLit) }

SeqsUpTo(S, n) == UNION { [1..m -> S] : m \in 0..n }

IsInjective(s) == \A m, n \in DOMAIN s : s[m] = s[n] => m = n

\* an entry an earlier deployment step left at a key this pass will write
StaleResource ==
    [Type |-> MetricFilterType,
     Properties |-> [FilterPattern |-> <<"o","l","d">>, Stale |-> <<"y">>]]

RECURSIVE LogGroups(_, _, _, _)
LogGroups(svc, stg, fns, missing) ==
    IF fns = <<>> THEN EmptyTable
    ELSE LET rest == LogGroups(svc, stg, SubSeq(fns, 1, Len(fns) - 1), missing)
             f == fns[Len(fns)]
         IN  IF f \in missing THEN rest
             ELSE Put(rest, getLogGroupLogicalId(f), LogGroupResource(svc, stg, f))

FirstKey(fns, options) ==
    normalizeNameToAlphaNumericOnly(
        fns[1] \o MetricFilterLit \o Interpolate(Get(options[1], "name")))

Init ==
    /\ functions \in { s \in SeqsUpTo(FunctionNames, MaxFunctions) : IsInjective(s) }
    \* a declaration repeated verbatim yields the same resource at the same key
    /\ metricOptions \in { s \in SeqsUpTo(OptionSet, MaxDecls) : IsInjective(s) }
    /\ service = Svc
    /\ stage = Dev
    /\ \E missing \in { m \in SUBSET { functions[n] : n \in DOMAIN functions } :
                          Cardinality(m) <= 1 },
          stale \in BOOLEAN, defined \in BOOLEAN :
          /\ hasResources = defined
          /\ defined => \/ ~stale
                        \/ missing = {} /\ functions # <<>> /\ metricOptions # <<>>
          /\ ~defined => ~stale /\ missing = {}
          /\ Resources =
               IF ~defined THEN EmptyTable
               ELSE LET groups == LogGroups(service, stage, functions, missing)
                    IN  IF stale /\ FirstKey(functions, metricOptions) \notin DOMAIN groups
                        THEN Put(groups, FirstKey(functions, metricOptions), StaleResource)
                        ELSE groups
    /\ dynamicNamespace = Undefined
    /\ pc = "idle"
    /\ mapped = <<>>
    /\ i = 1
    /\ j = 1
    /\ error = "none"
    /\ again = FALSE
    /\ resourcesAtStart = Resources
    /\ registered = {}

-----------------------------------------------------------------------------
(* handler() *)

\* line 87, and the start of this.functions.map
HandlerStart ==
    /\ pc \in {"idle", "done"}
    /\ pc' = "map"
    /\ again' = (pc = "done")
    /\ dynamicNamespace' = service \o <<"/">> \o stage
    /\ mapped' = <<>>
    /\ i' = 1
    /\ j' = 1
    /\ resourcesAtStart' = Resources
    /\ UNCHANGED <<metricOptions, functions, service, stage, hasResources,
                   Resources, error, registered>>

RECURSIVE RegisterAll(_, _, _, _)
RegisterAll(defined, tab, functionName, resources) ==
    IF resources = <<>> THEN tab
    ELSE RegisterAll(TRUE,
                     registerResource(defined, tab,
                                      ResourceName(functionName, Head(resources)),
                                      Head(resources)),
                     functionName, Tail(resources))

\* a handler that registers the resources of a function as soon as it has
\* built them, before the next function is mapped
MapStepEager ==
    /\ pc = "map"
    /\ i <= Len(functions)
    /\ LET functionName == functions[i]
           t == FirstThrow(hasResources, Resources, functionName,
                           ApplicableOptions(metricOptions, functionName))
           built == createMetricFilterResources(Resources, functionName, metricOptions)
       IN  IF t # "none"
           THEN /\ pc' = "failed"
                /\ error' = t
                /\ UNCHANGED <<mapped, i, Resources>>
           ELSE /\ mapped' = Append(mapped, built)
                /\ Resources' = RegisterAll(hasResources, Resources, functionName,
                                            built.resources)
                /\ i' = i + 1
                /\ UNCHANGED <<pc, error>>
    /\ UNCHANGED <<metricOptions, functions, service, stage, hasResources,
                   dynamicNamespace, j, again, resourcesAtStart, registered>>

\* one callback of this.functions.map: createMetricFilterResources(functions[i])
MapStep ==
    /\ pc = "map"
    /\ i <= Len(functions)
    /\ LET functionName == functions[i]
           t == FirstThrow(hasResources, Resources, functionName,
                           ApplicableOptions(metricOptions, functionName))
       IN  IF t # "none"
           THEN /\ pc' = "failed"
                /\ error' = t
                /\ UNCHANGED <<mapped, i>>
           ELSE /\ mapped' = Append(mapped,
                      createMetricFilterResources(Resources, functionName, metricOptions))
                /\ i' = i + 1
                /\ UNCHANGED <<pc, error>>
    /\ UNCHANGED <<metricOptions, functions, service, stage, hasResources,
                   Resources, dynamicNamespace, j, again, resourcesAtStart,
                   registered>>

\* map has returned: forEach begins
MapDone ==
    /\ pc = "map"
    /\ i > Len(functions)
    /\ pc' = "forEach"
    /\ i' = 1
    /\ j' = 1
    /\ UNCHANGED <<metricOptions, functions, service, stage, hasResources,
                   Resources, dynamicNamespace, mapped, error, again,
                   resourcesAtStart, registered>>

\* one callback of resources.forEach: registerResource(resourceName, resource)
RegisterStep ==
    /\ pc = "forEach"
    /\ i <= Len(mapped)
    /\ j <= Len(mapped[i].resources)
    /\ LET functionName == mapped[i].functionName
           resource == mapped[i].resources[j]
           resourceName == ResourceName(functionName, resource)
       IN  /\ Resources' = registerResource(hasResources, Resources, resourceName, resource)
           /\ hasResources' = TRUE
           /\ registered' = registered \cup {normalizeNameToAlphaNumericOnly(resourceName)}
           \* the array holds the object that was registered: it lost the key too
           /\ mapped' = [mapped EXCEPT ![i].resources[j] = Delete(resource, "__metricOption")]
    /\ j' = j + 1
    /\ UNCHANGED <<metricOptions, functions, service, stage, dynamicNamespace,
                   pc, i, error, again, resourcesAtStart>>

\* the inner forEach has returned: the next element of the outer one
NextFunction ==
    /\ pc = "forEach"
    /\ i <= Len(mapped)
    /\ j > Len(mapped[i].resources)
    /\ i' = i + 1
    /\ j' = 1
    /\ UNCHANGED <<metricOptions, functions, service, stage, hasResources,
                   Resources, dynamicNamespace, pc, mapped, error, again,
                   resourcesAtStart, registered>>

\* handler() returns
HandlerReturn ==
    /\ pc = "forEach"
    /\ i > Len(mapped)
    /\ pc' = "done"
    /\ UNCHANGED <<metricOptions, functions, service, stage, hasResources,
                   Resources, dynamicNamespace, mapped, i, j, error, again,
                   resourcesAtStart, registered>>

Next ==
    \/ HandlerStart
    \/ MapStep
    \/ MapDone
    \/ RegisterStep
    \/ NextFunction
    \/ HandlerReturn

Spec == Init /\ [][Next]_vars

-----------------------------------------------------------------------------------------------------------------------------------------------------
(* Vocabulary of the properties *)

Range(s) == { s[n] : n \in DOMAIN s }

\* the declarations createMetricFilterResources keeps for the n-th function,
\* in the order of custom.metrics: the k-th resource of mapped[n] is built
\* from the k-th of them
OptionsFor(n) == ApplicableOptions(metricOptions, functions[n])

IndicesFor(n) ==
    SelectSeq([m \in 1..Len(metricOptions) |-> m],
              LAMBDA m : AppliesTo(metricOptions[m], functions[n]))

PairKey(functionName, option) ==
    normalizeNameToAlphaNumericOnly(
        functionName \o MetricFilterLit \o Interpolate(Get(option, "name")))

\* the resources map has produced: r is the k-th resource of the n-th
\* function f, built from the declaration d, the m-th of custom.metrics
Produced ==
    UNION { LET opts == OptionsFor(n)
                idx == IndicesFor(n)
            IN  { [n |-> n, k |-> k, f |-> functions[n], d |-> opts[k],
                   m |-> idx[k], r |-> mapped[n].resources[k]] :
                    k \in DOMAIN mapped[n].resources } :
            n \in DOMAIN mapped }

\* the same, each with the key handler registers it at
ProducedKeyed ==
    UNION { LET opts == OptionsFor(n)
            IN  { [n |-> n, k |-> k, key |-> PairKey(functions[n], opts[k]),
                   r |-> mapped[n].resources[k]] :
                    k \in DOMAIN mapped[n].resources } :
            n \in DOMAIN mapped }

Transformation(r) == r.Properties.MetricTransformations[1]

\* the keys of the applicable (function, declaration) pairs
PassKeys ==
    UNION { { PairKey(functions[n], metricOptions[m]) :
                m \in { x \in DOMAIN metricOptions :
                          AppliesTo(metricOptions[x], functions[n]) } } :
            n \in DOMAIN functions }

\* forEach has passed the k-th resource of the n-th function
Iterated(n, k) ==
    \/ pc = "done"
    \/ pc = "forEach" /\ (n < i \/ (n = i /\ k < j))

Before(n, k, n2, k2) == n < n2 \/ (n = n2 /\ k < k2)

Finished == pc \in {"done", "failed"}

\* the host has compiled a log group for every function
LogGroupsCompiled ==
    /\ hasResources
    /\ \A n \in DOMAIN functions :
          /\ getLogGroupLogicalId(functions[n]) \in DOMAIN resourcesAtStart
          /\ Has(resourcesAtStart[getLogGroupLogicalId(functions[n])], "Properties")

WellFormed ==
    \A m \in DOMAIN metricOptions :
        Has(metricOptions[m], "name") /\ Has(metricOptions[m], "pattern")

\* functions with a declaration to build whose log group cannot be read
UnresolvedFunctions ==
    { n \in DOMAIN functions :
        /\ \E m \in DOMAIN metricOptions : AppliesTo(metricOptions[m], functions[n])
        /\ \/ ~hasResources
           \/ getLogGroupLogicalId(functions[n]) \notin DOMAIN resourcesAtStart
           \/ ~Has(resourcesAtStart[getLogGroupLogicalId(functions[n])], "Properties") }

\* no key this pass writes is the logical id of a function's log group
NoLogGroupKeyWritten ==
    LET keys == PassKeys
    IN  \A n \in DOMAIN functions : getLogGroupLogicalId(functions[n]) \notin keys

\* two names that differ in more than the case of their first character
DifferBeyondFirstCase(f, g) ==
    \/ f = <<>> /\ g # <<>>
    \/ g = <<>> /\ f # <<>>
    \/ f # <<>> /\ g # <<>> /\ (Tail(f) # Tail(g) \/ UpperChar(Head(f)) # UpperChar(Head(g)))

IsStatic(d) == Has(d, "staticName") /\ d.staticName

ExpectedMetricName(f, d) ==
    IF IsStatic(d) THEN Get(d, "name")
    ELSE normalizeName(f) \o <<"-">> \o Interpolate(Get(d, "name"))

-----------------------------------------------------------------------------
(* C1: after a pass, a resource has been produced for the pair (f, d)      *)
(* exactly when d.functions is absent or empty or holds f: every function  *)
(* has one resource per declaration that applies to it.  Stated for the    *)
(* passes the host has prepared (log groups compiled, name and pattern     *)
(* given).                                                                 *)

ClaimApplies(d, f) ==
    ~Has(d, "functions") \/ d.functions = <<>> \/ f \in Range(d.functions)

C1_ResourcePerApplicablePair ==
    (Finished /\ LogGroupsCompiled /\ WellFormed) =>
        /\ pc = "done"
        /\ Len(mapped) = Len(functions)
        /\ \A n \in DOMAIN mapped :
              /\ mapped[n].functionName = functions[n]
              /\ Len(mapped[n].resources) =
                    Cardinality({ m \in DOMAIN metricOptions :
                                    ClaimApplies(metricOptions[m], functions[n]) })

(* C1, what the code does: once map has returned, every function has one   *)
(* resource per declaration that applies to it (map returns only when no   *)
(* applicable declaration lacks a namespace).                              *)

C1_ReturnedMapHoldsApplicablePairs ==
    pc \in {"forEach", "done"} =>
        /\ Len(mapped) = Len(functions)
        /\ \A n \in DOMAIN mapped :
              /\ mapped[n].functionName = functions[n]
              /\ Len(mapped[n].resources) =
                    Cardinality({ m \in DOMAIN metricOptions :
                                    ClaimApplies(metricOptions[m], functions[n]) })
              /\ \A m \in DOMAIN metricOptions :
                    ClaimApplies(metricOptions[m], functions[n])
                    => Truthy(Get(metricOptions[m], "namespace"))

(* C2: MetricNamespace is "<service>/<stage>" for a declaration without    *)
(* namespace and the declaration's namespace otherwise, for the resources  *)
(* of a pass the host has prepared.                                        *)

C2_NamespaceDefault ==
    (Finished /\ LogGroupsCompiled /\ WellFormed) =>
        /\ pc = "done"
        /\ \A p \in Produced :
              Transformation(p.r).MetricNamespace =
                 IF Has(p.d, "namespace") /\ p.d.namespace # <<>>
                 THEN p.d.namespace
                 ELSE service \o <<"/">> \o stage

(* C2, what the code does: every resource produced has the non-empty       *)
(* namespace of its declaration, and handler ends with a ReferenceError as *)
(* soon as it builds a resource for a declaration without one.             *)

C2_OnlyGivenNamespaceEmitted ==
    /\ \A p \in Produced :
          /\ Truthy(Get(p.d, "namespace"))
          /\ Transformation(p.r).MetricNamespace = p.d.namespace
    /\ error = "ReferenceError" =>
          /\ pc = "failed"
          /\ \E m \in DOMAIN metricOptions :
                /\ AppliesTo(metricOptions[m], functions[i])
                /\ ~Truthy(Get(metricOptions[m], "namespace"))

(* C3: the MetricTransformations entry of a resource has the key           *)
(* DefaultValue exactly when its declaration gives defaultValue, and then  *)
(* with that value (declarations with name and pattern).                   *)

C3_DefaultValueAbsent ==
    WellFormed =>
        \A p \in Produced :
            IF Has(p.d, "defaultValue")
            THEN /\ Has(Transformation(p.r), "DefaultValue")
                 /\ Transformation(p.r).DefaultValue = p.d.defaultValue
            ELSE ~Has(Transformation(p.r), "DefaultValue")

(* C3, what the code does: the entry always has the key DefaultValue, with  *)
(* the declaration's defaultValue, or undefined when it gives none.        *)

C3_DefaultValueKeyAlways ==
    \A p \in Produced :
        /\ Has(Transformation(p.r), "DefaultValue")
        /\ Transformation(p.r).DefaultValue = Get(p.d, "defaultValue")

(* C7: when a declaration lacks name or pattern, the pass registers no     *)
(* metric filter at all.                                                   *)

C7_MissingFieldRegistersNothing ==
    ~WellFormed => registered = {}

(* C4, as claimed: MetricName is d.name under staticName and               *)
(* "<normalizeName(f)>-<d.name>" otherwise, and then two different         *)
(* functions never share the MetricName of one declaration (declarations   *)
(* with name and pattern).                                                 *)

C4_MetricNameDistinct ==
    WellFormed =>
        LET P == Produced
        IN  \A p \in P :
              /\ Transformation(p.r).MetricName = ExpectedMetricName(p.f, p.d)
              /\ \A q \in P :
                    (p.n # q.n /\ p.m = q.m /\ ~IsStatic(p.d))
                    => Transformation(p.r).MetricName # Transformation(q.r).MetricName

(* C4, amended: MetricName is d.name under staticName and                  *)
(* "<normalizeName(f)>-<d.name>" otherwise, and then two functions whose   *)
(* names differ in more than the case of their first character never share *)
(* the MetricName of one declaration.                                      *)

C4_MetricNameDistinctUpToFirstCase ==
    LET P == Produced
    IN  \A p \in P :
          /\ Transformation(p.r).MetricName = ExpectedMetricName(p.f, p.d)
          /\ \A q \in P :
                (p.m = q.m /\ ~IsStatic(p.d) /\ DifferBeyondFirstCase(p.f, q.f))
                => Transformation(p.r).MetricName # Transformation(q.r).MetricName

C4_Witness ==
    /\ pc = "forEach"
    /\ \E p, q \in Produced :
          p.m = q.m /\ ~IsStatic(p.d) /\ DifferBeyondFirstCase(p.f, q.f)
    /\ \E p \in Produced :
          IsStatic(p.d) /\ Transformation(p.r).MetricName = p.d.name

(* C5: every resource forEach has passed was written at the normalized     *)
(* form of "<f>MetricFilter<d.name>", without an error, and that key holds *)
(* the whole resource of the last pair written to it, whatever the table   *)
(* held there before.                                                      *)

C5_LastWriteWins ==
    /\ pc = "forEach" => error = "none"
    /\ pc \in {"forEach", "done"} =>
          LET P == { p \in ProducedKeyed : Iterated(p.n, p.k) }
          IN  \A p \in P :
                /\ p.key \in DOMAIN Resources
                /\ p.key \in registered
                /\ (\A q \in P : ~(Before(p.n, p.k, q.n, q.k) /\ q.key = p.key))
                   => Resources[p.key] = p.r

C5_Witness ==
    /\ pc = "done"
    /\ ~again
    /\ \E p, q \in ProducedKeyed :
          /\ Before(p.n, p.k, q.n, q.k)
          /\ p.key = q.key
          /\ p.r # q.r
          /\ p.key \in DOMAIN resourcesAtStart
          /\ resourcesAtStart[p.key] = StaleResource

(* C6, as claimed: a second pass over the same inputs ends with the keys   *)
(* and the table the first pass ended with.                                *)

C6_SecondPassSameTable ==
    (pc = "done" /\ again) =>
        /\ DOMAIN Resources = DOMAIN resourcesAtStart
        /\ Resources = resourcesAtStart

(* C6, amended: a second pass over the same inputs ends with the keys the  *)
(* first pass ended with, and with the same table when no key the pass     *)
(* writes is the logical id of the log group of one of the functions.      *)

C6_SecondPassSameKeys ==
    (pc = "done" /\ again) =>
        /\ DOMAIN Resources = DOMAIN resourcesAtStart
        /\ Resources = resourcesAtStart \/ ~NoLogGroupKeyWritten

C6_Witness ==
    /\ pc = "done"
    /\ again
    /\ NoLogGroupKeyWritten
    /\ Cardinality(PassKeys) >= 2
    /\ PassKeys \subseteq DOMAIN Resources

(* C8: in a pass in which the log group of a function with a declaration   *)
(* to build cannot be read, handler never reaches forEach: it is still     *)
(* mapping a function at or before the first such function, or has ended   *)
(* with an exception, and the table is the one the pass began with.        *)

C8_FailsBeforeMerge ==
    pc # "idle" =>
        LET U == UnresolvedFunctions
        IN  U # {} =>
              /\ pc \in {"map", "failed"}
              /\ pc = "map" => \A n \in U : i <= n
              /\ pc = "failed" => error \in {"TypeError", "ReferenceError"}
              /\ Resources = resourcesAtStart
              /\ registered = {}

C8_Witness ==
    /\ pc = "failed"
    /\ error = "TypeError"
    /\ hasResources
    /\ Len(mapped) >= 1
    /\ mapped[1].resources # <<>>

(* C9, as claimed: a pass changes no entry whose key is not the key of an  *)
(* applicable pair and adds no other key, and after the pass the log group *)
(* every produced filter names in DependsOn is the entry the pass began    *)
(* with.                                                                   *)

\* (a table equal to the one the pass began with needs no look at the keys)
Frame(keys) ==
    /\ \A key \in DOMAIN resourcesAtStart \ keys :
          key \in DOMAIN Resources /\ Resources[key] = resourcesAtStart[key]
    /\ DOMAIN Resources \subseteq DOMAIN resourcesAtStart \cup keys

C9_LogGroupsUntouched ==
    /\ Resources # resourcesAtStart => Frame(PassKeys)
    /\ pc = "done" =>
          \A n \in DOMAIN mapped : \A k \in DOMAIN mapped[n].resources :
             LET id == mapped[n].resources[k].DependsOn
             IN  /\ id \in DOMAIN resourcesAtStart
                 /\ id \in DOMAIN Resources
                 /\ Resources[id] = resourcesAtStart[id]

(* C9, amended: a pass changes no entry whose key is not the key of an     *)
(* applicable pair and adds no other key, and after the pass the log group *)
(* every produced filter names in DependsOn is still present, and is the   *)
(* entry the pass began with unless its logical id is itself the key of an *)
(* applicable pair.                                                        *)

C9_LogGroupsUntouchedUnlessKeyed ==
    /\ Resources # resourcesAtStart => Frame(PassKeys)
    /\ pc = "done" =>
          \A n \in DOMAIN mapped : \A k \in DOMAIN mapped[n].resources :
             LET id == mapped[n].resources[k].DependsOn
             IN  /\ id \in DOMAIN resourcesAtStart
                 /\ id \in DOMAIN Resources
                 /\ Resources[id] # resourcesAtStart[id] => id \in PassKeys

C9_Witness ==
    /\ pc = "done"
    /\ ~again
    /\ Resources # resourcesAtStart
    /\ \E n \in DOMAIN mapped : \E k \in DOMAIN mapped[n].resources :
          /\ mapped[n].resources[k].DependsOn \notin PassKeys
          /\ Resources[mapped[n].resources[k].DependsOn].Type = LogGroupType

(* C10: every entry registerResource has written has the keys Type,        *)
(* DependsOn and Properties and no others; while forEach runs, a resource  *)
(* it has not reached still refers to its declaration through              *)
(* __metricOption, unchanged, and one it has passed no longer has the key. *)

C10_NoMetaInTable ==
    /\ \A key \in registered :
          /\ key \in DOMAIN Resources
          /\ DOMAIN Resources[key] = {"Type", "DependsOn", "Properties"}
    /\ pc \in {"forEach", "done"} =>
          \A p \in Produced :
             IF Iterated(p.n, p.k)
             THEN ~Has(p.r, "__metricOption")
             ELSE /\ Has(p.r, "__metricOption")
                  /\ p.r.__metricOption = metricOptions[p.m]

C10_Witness ==
    /\ pc = "forEach"
    /\ registered # {}
    /\ \E p \in Produced : ~Iterated(p.n, p.k)
    /\ \E p \in Produced : Iterated(p.n, p.k)

====
